---- MODULE Spec2Model ----
(***************************************************************************)
(* Backbone.Courier: view.spawn bubbles a message up the view hierarchy.   *)
(* Each ancestor may handle it (onMessages) and decides whether it goes on *)
(* (passMessages).  Strings are sequences of one-character strings, so     *)
(* that key splitting, wildcard matching and specificity are computed on   *)
(* the characters as the code computes them.                               *)
(***************************************************************************)
EXTENDS Integers, Sequences, FiniteSets, TLC

\* ------------------------------------------------------------------ bounds
NumViews == 4      \* views in the hierarchy
MaxConfig == 2     \* table assignments the application makes
MaxPatLen == 3     \* characters of an event pattern in the matcher families
MaxNameLen == 2    \* characters of a message name in the matcher families
NumNodes == 6      \* nodes, in the document and outside it

\* ------------------------------------------------------------- JS values
Views == 1..NumViews
NoView == 0
JSUndefined == [type |-> "undefined"]
JSNull == [type |-> "null"]
JSBool(b) == [type |-> "boolean", val |-> b]
JSArray(s) == [type |-> "array", val |-> s]
JSHash(entries) == [type |-> "object", entries |-> entries]
JSData(d) == [type |-> "data", val |-> d]
JSFunction(id) == [type |-> "function", id |-> id]
JSString(s) == [type |-> "string", val |-> s]
\* a passMessages that is a function, and what it returns
JSComputed(t) == [type |-> "function", returns |-> t]
\* an exception on its way out of getValueOfBestMatchingHashEntry
Raised(e) == [type |-> "throw", error |-> e]
Entry(key, val) == [key |-> key, value |-> val]

WordCharsAndBang == {"a", "b", "c", "d", "m", "n", "_", "!"}

\* characters matched by the regular expression class \w
WordChars == {"a", "b", "c", "d", "m", "n", "_"}

\* ------------------------------------------------------ key and matching
\* delegateEventSplitter = /^(\S+)\s*(.*)$/ applied to a hash key:
\* match[1] is the leading run of non-blank characters, match[2] what
\* follows the blanks after it.
FirstBlank(key) ==
    IF \E i \in 1..Len(key) : key[i] = " "
    THEN CHOOSE i \in 1..Len(key) :
            key[i] = " " /\ \A j \in 1..(i - 1) : key[j] # " "
    ELSE Len(key) + 1

FirstNonBlankFrom(key, from) ==
    IF \E i \in from..Len(key) : key[i] # " "
    THEN CHOOSE i \in from..Len(key) :
            key[i] # " " /\ \A j \in from..(i - 1) : key[j] = " "
    ELSE Len(key) + 1

delegateEventSplitter(key) ==
    LET blank == FirstBlank(key)
    IN  [eventName |-> SubSeq(key, 1, blank - 1),
         subviewName |-> SubSeq(key, FirstNonBlankFrom(key, blank), Len(key))]

\* One character of the source of a regular expression, other than '*':
\* '.' is the metacharacter that matches any character, every other
\* character of the alphabet stands for itself.
AtomMatches(patChar, ch) == IF patChar = "." THEN TRUE ELSE patChar = ch

\* the first '*' of the pattern at or after index i, or one past its end
NextStar(eventName, i) ==
    IF \E e \in i..Len(eventName) : eventName[e] = "*"
    THEN CHOOSE e \in i..Len(eventName) :
            eventName[e] = "*" /\ \A j \in i..(e - 1) : eventName[j] # "*"
    ELSE Len(eventName) + 1

\* The pattern from index i matches the name after its first o characters:
\* the atoms up to the next '*' match one character each, and [\w]* takes
\* any number of \w characters before the rest of the pattern matches; at
\* the end of the pattern the name must be used up ('$').
RECURSIVE MatchAt(_, _, _, _)
MatchAt(eventName, i, name, o) ==
    LET e == NextStar(eventName, i)
        n == e - i
    IN  /\ o + n <= Len(name)
        /\ \A t \in 1..n : AtomMatches(eventName[i + t - 1], name[o + t])
        /\ IF e > Len(eventName)
           THEN o + n = Len(name)
           ELSE \E o2 \in (o + n)..Len(name) :
                   /\ MatchAt(eventName, e + 1, name, o2)
                   /\ \A t \in (o + n + 1)..o2 : name[t] \in WordChars

\* new RegExp( '^' + eventName.replace( /\*/g, "[\\w]*" ) + '$' ).test( name )
RegExpTest(eventName, name) == MatchAt(eventName, 1, name, 0)

\* thisEntry.eventName.replace( "*", "" ): a string pattern replaces the
\* first occurrence only.
ReplaceFirstStar(eventName) ==
    IF \E i \in 1..Len(eventName) : eventName[i] = "*"
    THEN LET p == CHOOSE i \in 1..Len(eventName) :
                     eventName[i] = "*" /\ \A j \in 1..(i - 1) : eventName[j] # "*"
         IN  SubSeq(eventName, 1, p - 1) \o SubSeq(eventName, p + 1, Len(eventName))
    ELSE eventName

QualifierBonus == 1000

SpecificityNoBonus(thisEntry) == Len(ReplaceFirstStar(thisEntry.eventName))

\* ( hasSubviewQualifier ? 1000 : 0 ) + nonWildcardCharactersInEventName.length
Specificity(thisEntry) ==
    (IF thisEntry.subviewName # <<>> THEN QualifierBonus ELSE 0)
        + Len(ReplaceFirstStar(thisEntry.eventName))

\* _.sortBy( list, iterator ), with criteria[i] what the iterator gives for
\* list[i]: ascending by criterion, equal criteria keep their order in the
\* list.
SortBy(list, criteria) ==
    LET n == Len(list)
        rank(i) == Cardinality({j \in 1..n :
                       \/ criteria[j] < criteria[i]
                       \/ criteria[j] = criteria[i] /\ j < i}) + 1
    IN  [r \in 1..n |-> list[CHOOSE i \in 1..n : rank(i) = r]]

\* ------------------------------------------------------------------ state
VARIABLES
    parentView,             \* view -> what its _getParentView() returns
    subviews,               \* view -> its subviews hash
    methods,                \* view -> names of the functions it carries
    childViewNamed,         \* view -> "default", or "override" when the
                            \* application supplied its own _getChildViewNamed
    parentViewFn,           \* view -> the _getParentView it carries: "absent",
                            \* "default" (installed by add) or "override"
    el,                     \* view -> the node that is its $el
    elData,                 \* node -> what its data( "view" ) holds
    found,                  \* the findClosestParentView call just made, if
                            \* the last step was one
    onMessages,             \* view -> its onMessages
    passMessages,           \* view -> its passMessages
    pc,                     \* position of the spawn call
    spawner,                \* the view spawn was called on
    argument,               \* what spawn was called with
    message,                \* var message: name, data, source
    isRoundTripMessage,
    curChild,
    curParent,
    messageShouldBePassed,
    value,
    result,                 \* what the call gave its caller
    triggered,              \* this.trigger calls of the current spawn
    invoked,                \* handler calls of the current spawn, in order
    prevResult,             \* what the call before gave, when it was the same
                            \* round-trip call
    passCalls,              \* calls the current spawn made of functions found
                            \* in passMessages, in order
    lookedUp,               \* _getChildViewNamed calls of the current spawn
    visited,                \* the values curParent had at the handler steps
                            \* of the current spawn, in order
    stack                   \* the spawn calls waiting for a handler to return

dom == <<el, elData, found>>
config == <<parentView, subviews, methods, childViewNamed, parentViewFn, onMessages,
            passMessages, dom>>
frame == <<spawner, argument, message, isRoundTripMessage, curChild, curParent,
           messageShouldBePassed, value>>
vars == <<parentView, subviews, methods, childViewNamed, parentViewFn, el, elData,
          found, onMessages, passMessages,
          pc, spawner, argument, message, isRoundTripMessage, curChild, curParent,
          messageShouldBePassed, value, result, triggered, invoked, prevResult,
          passCalls, lookedUp, visited, stack>>

\* ------------------------------------------------------- names and tables
NameM == <<"m">>
NameMBang == <<"m", "!">>
SpawnNames == {NameM, NameMBang}

EmptyObject == JSHash(<<>>)
SpawnData == {JSUndefined, JSData("d1")}
Returns == {JSUndefined, JSData("info")}

ChildC == <<"c">>
ChildD == <<"d">>
Qualified(name, child) == name \o <<" ">> \o child

\* the value of an entry is a function, identified by the key it is under,
\* or the name of a method
HandlerTable(keys) == JSHash([i \in 1..Len(keys) |-> Entry(keys[i], JSFunction(keys[i]))])

OnPlain == HandlerTable(<<NameM, NameMBang>>)
OnFromC == HandlerTable(<<Qualified(NameM, ChildC), Qualified(NameMBang, ChildC)>>)
OnFromD == HandlerTable(<<Qualified(NameM, ChildD), Qualified(NameMBang, ChildD)>>)
OnNamed == JSHash(<<Entry(NameM, JSString("onM")), Entry(NameMBang, JSString("nope"))>>)
OnTables == {OnPlain, OnFromC, OnFromD, OnNamed}

PassTables == {JSBool(TRUE), JSBool(FALSE), JSArray(<<NameM>>),
               JSHash(<<Entry(NameM, JSString(<<".">>))>>)}

NoResult == [kind |-> "none"]
Returned(v) == [kind |-> "return", value |-> v]
Thrown(e) == [kind |-> "throw", error |-> e]

\* ------------------------------------------------------------- hierarchy
\* view v + 1 sits in view v; the last view sits in its predecessor (a
\* chain) or beside it (a fork)
Shapes ==
    {p \in [Views -> 0..NumViews] :
        /\ \A v \in 1..(NumViews - 1) : p[v] = v - 1
        /\ p[NumViews] \in {NumViews - 1, NumViews - 2}}

\* the views that hold other views in every shape; the application gives
\* tables to these
Holders == 1..(NumViews - 1)

\* every view keeps the next view under the name c and the one after it
\* under the name d; the last view keeps no subviews hash
InitSubviews ==
    [v \in Views |->
        IF v = NumViews THEN JSUndefined
        ELSE [type |-> "object",
              map |-> [n \in {ChildC} \cup (IF v + 2 <= NumViews THEN {ChildD} ELSE {})
                          |-> IF n = ChildC THEN v + 1 ELSE v + 2]]]

\* the children an application's own _getChildViewNamed knows: the next
\* view as c and the one after it as d
OverrideMap(view) ==
    [n \in (IF view + 1 <= NumViews THEN {ChildC} ELSE {})
              \cup (IF view + 2 <= NumViews THEN {ChildD} ELSE {})
        |-> IF n = ChildC THEN view + 1 ELSE view + 2]

\* an application's own _getChildViewNamed throws for a name it does not know
ResolverThrows(view, childViewName) ==
    /\ childViewNamed[view] = "override"
    /\ childViewName \notin DOMAIN OverrideMap(view)

AnyChildViewNamed(view, childViewName) == IF view < NumViews THEN view + 1 ELSE NoView

\* view._getChildViewNamed, the default or the application's own
_getChildViewNamed(view, childViewName) ==
    IF childViewNamed[view] = "override"
    THEN IF childViewName \in DOMAIN OverrideMap(view)
         THEN OverrideMap(view)[childViewName]
         ELSE NoView
    ELSE IF subviews[view].type # "object" THEN NoView
    ELSE IF childViewName \in DOMAIN subviews[view].map
         THEN subviews[view].map[childViewName]
         ELSE NoView

EntryMatches(thisEntry, name, view, sourceView) ==
    /\ RegExpTest(thisEntry.eventName, name)
    /\ thisEntry.subviewName # <<>> =>
           _getChildViewNamed(view, thisEntry.subviewName) = sourceView

NegSpecificity(thisEntry) == 0 - Specificity(thisEntry)

\* key.match( delegateEventSplitter ) for every key of the hash
ParseHash(hash) ==
    [i \in 1..Len(hash) |->
        LET match == delegateEventSplitter(hash[i].key)
        IN  [eventName |-> match.eventName,
             subviewName |-> match.subviewName,
             value |-> hash[i].value]]

LookupNeededAnyPattern(thisEntry, name) == thisEntry.subviewName # <<>>

\* the loop reaches view._getChildViewNamed( subviewName ) for this entry:
\* the event pattern matched (no continue) and there is a qualifier
LookupNeeded(thisEntry, name) ==
    /\ thisEntry.subviewName # <<>>
    /\ RegExpTest(thisEntry.eventName, name)

\* the first entry of the hash at which _getChildViewNamed throws, or 0
FirstThrowing(hash, msg, view) ==
    LET parsed == ParseHash(hash)
        throwing == {i \in 1..Len(hash) :
                        /\ ResolverThrows(view, parsed[i].subviewName)
                        /\ LookupNeeded(parsed[i], msg.name)}
    IN  IF childViewNamed[view] # "override" \/ throwing = {} THEN 0
        ELSE CHOOSE i \in throwing : \A j \in throwing : i <= j

\* the _getChildViewNamed calls the loop over the hash makes, in order, up
\* to the one that throws
LookupsOf(hash, msg, view) ==
    LET parsed == ParseHash(hash)
        thrownAt == FirstThrowing(hash, msg, view)
        last == IF thrownAt = 0 THEN Len(hash) ELSE thrownAt
        Asked(e) == LookupNeeded(e, msg.name)
        asked == SelectSeq(SubSeq(parsed, 1, last), Asked)
    IN  [i \in 1..Len(asked) |->
            [view |-> view,
             eventName |-> asked[i].eventName,
             subviewName |-> asked[i].subviewName]]

getValueOfBestMatchingHashEntry(hash, msg, view, sourceView) ==
    LET parsed == ParseHash(hash)
        Keep(e) == EntryMatches(e, msg.name, view, sourceView)
        matchingEntries == SelectSeq(parsed, Keep)
        sorted == IF Len(matchingEntries) > 1
                  THEN SortBy(matchingEntries,
                              [i \in 1..Len(matchingEntries) |->
                                  NegSpecificity(matchingEntries[i])])
                  ELSE matchingEntries
    IN  IF FirstThrowing(hash, msg, view) # 0 THEN Raised("Error: Unknown view name")
        ELSE IF Len(sorted) > 0 THEN sorted[1].value ELSE JSNull

\* ---------------------------------------------------------------- actions
Idle == [spawner |-> NoView,
         message |-> [name |-> <<>>, data |-> JSUndefined, source |-> NoView]]

InitFrame ==
    /\ pc = "idle"
    /\ spawner = NoView
    /\ argument = JSUndefined
    /\ message = Idle.message
    /\ isRoundTripMessage = FALSE
    /\ curChild = NoView
    /\ curParent = NoView
    /\ messageShouldBePassed = JSUndefined
    /\ value = JSUndefined
    /\ result = NoResult
    /\ triggered = <<>>
    /\ invoked = <<>>
    /\ prevResult = NoResult
    /\ passCalls = <<>>
    /\ lookedUp = <<>>
    /\ visited = <<>>
    /\ stack = <<>>

\* the functions a view carries once Backbone.Courier.add has been called
\* on it: those of the application and of Backbone.View, and spawn
ViewMethods == {"onM", "render", "spawn"}

\* the nodes of the document; 0 stands for no node
Nodes == 1..NumNodes
NoNode == 0

\* the bubble takes the parent of every view as given (parentView) and
\* leaves the document out
NoDocument ==
    /\ el = [v \in Views |-> NoNode]
    /\ elData = [n \in Nodes |-> NoView]
    /\ found = [kind |-> "none"]

Init ==
    /\ parentView \in Shapes
    /\ subviews = InitSubviews
    /\ methods = [v \in Views |-> ViewMethods]
    /\ childViewNamed = [v \in Views |-> "default"]
    /\ parentViewFn = [v \in Views |-> "default"]
    /\ NoDocument
    /\ onMessages = [v \in Views |-> JSUndefined]
    /\ passMessages = [v \in Views |-> JSUndefined]
    /\ InitFrame

NumConfigured ==
    Cardinality({v \in Views : onMessages[v] # JSUndefined})
        + Cardinality({v \in Views : passMessages[v] # JSUndefined})

\* the application gives a view its onMessages
SetOnMessages(v, table) ==
    /\ pc = "idle"
    /\ v \in Holders
    /\ NumConfigured < MaxConfig
    /\ onMessages[v] = JSUndefined
    /\ onMessages' = [onMessages EXCEPT ![v] = table]
    /\ UNCHANGED <<parentView, subviews, methods, childViewNamed, parentViewFn, dom,
                   passMessages, pc, frame, result, triggered, invoked, prevResult,
                   passCalls, lookedUp, visited, stack>>

\* the application gives a view its passMessages
SetPassMessages(v, table) ==
    /\ pc = "idle"
    /\ v \in Holders
    /\ NumConfigured < MaxConfig
    /\ passMessages[v] = JSUndefined
    /\ passMessages' = [passMessages EXCEPT ![v] = table]
    /\ UNCHANGED <<parentView, subviews, methods, childViewNamed, parentViewFn, dom,
                   onMessages, pc, frame, result, triggered, invoked, prevResult,
                   passCalls, lookedUp, visited, stack>>

\* what an application's own _getParentView returns: the view two above
OwnParent(view) == IF view > 2 THEN view - 2 ELSE NoView

\* view._getParentView, the default or the application's own
_getParentView(view) ==
    IF parentViewFn[view] = "override" THEN OwnParent(view) ELSE parentView[view]

FirstParentSelf(view) == view

\* var curParent = this._getParentView()
FirstParent(view) == _getParentView(view)

DataAsGiven(data) == data

\* _.isUndefined( message.data ) ? {} : message.data
DataOrEmpty(data) == IF data = JSUndefined THEN EmptyObject ELSE data

NoNotification(v, name, data) == <<>>

\* this.trigger( message.name, message.data )
Notification(v, name, data) == <<[view |-> v, name |-> name, data |-> data]>>

\* spawn from message.source = view up to the loop, for a message with the
\* name name
Begin(v, name, data) ==
    /\ spawner' = v
    /\ message' = [name |-> name, data |-> DataOrEmpty(data), source |-> v]
    /\ triggered' = Notification(v, JSString(name), DataOrEmpty(data))
    /\ isRoundTripMessage' = (Len(name) > 0 /\ name[Len(name)] = "!")
    /\ curChild' = v
    /\ curParent' = FirstParent(v)
    /\ messageShouldBePassed' = JSUndefined
    /\ value' = JSUndefined
    /\ result' = NoResult
    /\ invoked' = <<>>
    /\ passCalls' = <<>>
    /\ lookedUp' = <<>>
    /\ visited' = <<>>
    /\ pc' = "loop"
    /\ UNCHANGED config

\* the arguments of view.spawn( name, data )
Arguments(name, data) == [type |-> "string", val |-> name, data |-> data]

\* view.spawn( name, data ) up to the loop; once a call has returned, the
\* caller makes the same call again (any other call starts as the first did)
Spawn(v, name, data) ==
    /\ pc = "idle" \/ (pc = "done" /\ spawner = v /\ message.name = name)
    /\ "spawn" \in methods[v]
    /\ prevResult' = IF /\ pc = "done"
                        /\ spawner = v
                        /\ message.name = name
                        /\ isRoundTripMessage
                     THEN result ELSE NoResult
    /\ argument' = Arguments(name, data)
    /\ UNCHANGED stack
    /\ Begin(v, name, data)

\* a message object, as the caller builds it
JSMessage(name, data) == [type |-> "message", name |-> name, data |-> data]

\* what spawn is called with when it is not a string: nothing, an object
\* without a name, an object whose name is null, an object with a name
MessageObjects ==
    {JSUndefined,
     JSMessage(JSUndefined, JSUndefined),
     JSMessage(JSUndefined, JSData("d1")),
     JSMessage(JSNull, JSUndefined),
     JSMessage(JSString(NameM), JSData("d1"))}

\* spawn ends with an exception before the loop, after the trigger calls
\* notified
Abort(v, error, notified) ==
    /\ spawner' = v
    /\ message' = [Idle.message EXCEPT !.source = IF notified = <<>> THEN NoView ELSE v]
    /\ triggered' = notified
    /\ isRoundTripMessage' = FALSE
    /\ curChild' = NoView
    /\ curParent' = NoView
    /\ messageShouldBePassed' = JSUndefined
    /\ value' = JSUndefined
    /\ result' = Thrown(error)
    /\ invoked' = <<>>
    /\ passCalls' = <<>>
    /\ lookedUp' = <<>>
    /\ visited' = <<>>
    /\ pc' = "done"
    /\ UNCHANGED config

NameCheckSkipped(msg) == FALSE

\* _.isUndefined( message.name )
NameUndefined(msg) == msg.name = JSUndefined

\* view.spawn( message ) with a message that is not a string
SpawnObject(v, msg) ==
    /\ pc = "idle"
    /\ "spawn" \in methods[v]
    /\ prevResult' = NoResult
    /\ argument' = msg
    /\ UNCHANGED stack
    /\ IF msg.type = "undefined"
       THEN Abort(v, "TypeError: message is undefined", <<>>)
       ELSE IF NameUndefined(msg)
       THEN Abort(v, "Error: Undefined message name.", <<>>)
       ELSE IF msg.name.type # "string"
       THEN Abort(v, "TypeError: message.name.charAt is not a function",
                  Notification(v, msg.name, DataOrEmpty(msg.data)))
       ELSE Begin(v, msg.name.val, msg.data)

MatchSourceIsSpawner == message.source

\* the sourceView argument of getValueOfBestMatchingHashEntry
MatchSource == curChild

HandlerNeverEndsCall == FALSE

\* if( isRoundTripMessage ) return returnValue
HandlerEndsCall == isRoundTripMessage

\* curParent[ value ]: a function the view carries, its subviews hash, or
\* nothing
ViewProperty(view, prop) ==
    IF prop \in methods[view] THEN JSFunction(prop)
    ELSE IF prop = "subviews" THEN subviews[view]
    ELSE JSUndefined

\* ! x
Not(x) == x \in {JSUndefined, JSNull, JSBool(FALSE)}

HandlerArgumentsMessage == <<message>>

\* method.call( curParent, message.data, message.source, message.name ):
\* the arguments after the first
HandlerArguments == <<message.data, message.source, message.name>>

\* the first argument of method.call, the handler's this
HandlerThis == curParent

\* _.isObject( x ): true of a hash and of a function
IsObject(x) == x.type \in {"object", "function"}

\* the keys for( key in hash ) goes through: the entries of a hash; a
\* function has none
OwnEntries(hash) == IF hash.type = "object" THEN hash.entries ELSE <<>>

\* the handler step of one turn of the loop
Dispatch ==
    /\ pc = "loop"
    /\ curParent # NoView
    /\ visited' = Append(visited, curParent)
    /\ IF IsObject(onMessages[curParent])
       THEN LET best == getValueOfBestMatchingHashEntry(
                            OwnEntries(onMessages[curParent]), message, curParent,
                            MatchSource)
                method == IF best.type = "function" THEN best
                          ELSE ViewProperty(curParent, best.val)
            IN  /\ lookedUp' = lookedUp \o
                       LookupsOf(OwnEntries(onMessages[curParent]), message, curParent)
                /\ IF best.type = "throw"
                   THEN /\ result' = Thrown(best.error)
                        /\ pc' = "done"
                        /\ UNCHANGED <<value, invoked>>
                   ELSE /\ value' = best
                        /\ IF best = JSNull
                           THEN pc' = "pass" /\ UNCHANGED <<result, invoked>>
                           ELSE IF Not(method)
                           THEN /\ result' = Thrown("Error: method does not exist")
                                /\ pc' = "done"
                                /\ UNCHANGED invoked
                           ELSE IF method.type # "function"
                           THEN /\ result' = Thrown("TypeError: method.call is not a function")
                                /\ pc' = "done"
                                /\ UNCHANGED invoked
                           ELSE \E ret \in Returns :
                                  /\ invoked' = Append(invoked,
                                         [view |-> curParent, handler |-> best,
                                          this |-> HandlerThis,
                                          args |-> HandlerArguments,
                                          data |-> message.data, source |-> message.source,
                                          name |-> message.name, spawned |-> <<>>,
                                          returned |-> ret])
                                  /\ IF HandlerEndsCall
                                     THEN result' = Returned(ret) /\ pc' = "done"
                                     ELSE UNCHANGED result /\ pc' = "pass"
       ELSE pc' = "pass" /\ UNCHANGED <<value, result, invoked, lookedUp>>
    /\ UNCHANGED <<config, spawner, argument, message, isRoundTripMessage, curChild,
                   curParent, messageShouldBePassed, triggered, prevResult, passCalls,
                   stack>>

ContainsAsPattern(list, x) ==
    \E i \in 1..Len(list) :
        EntryMatches(delegateEventSplitter(list[i]), x, curParent, curChild)

Contains(list, x) == \E i \in 1..Len(list) : list[i] = x

\* _.result( view, "passMessages" ): a function is called and stands for
\* what it returns
Result(view) ==
    IF passMessages[view].type = "function" THEN passMessages[view].returns
    ELSE passMessages[view]

\* what the pass table of curParent makes of messageShouldBePassed: a table
\* that is not there leaves the variable as the turn before left it
PassTableValue ==
    IF Result(curParent) = JSUndefined THEN messageShouldBePassed
    ELSE IF Result(curParent).type = "boolean" THEN Result(curParent)
    ELSE IF Result(curParent).type = "array"
         THEN JSBool(Contains(Result(curParent).val, message.name))
    ELSE JSBool(FALSE)

NextShouldBePassedByTable == PassTableValue

\* messageShouldBePassed after the pass step at curParent
NextShouldBePassed ==
    IF isRoundTripMessage THEN JSBool(TRUE) ELSE PassTableValue

Truthy(x) == x = JSBool(TRUE)

ReadsPassTableAlways == TRUE

\* curParent = curParent._getParentView()
NextParent(view) == _getParentView(view)

LastHandlerResult ==
    IF invoked = <<>> THEN Returned(JSUndefined)
    ELSE Returned(invoked[Len(invoked)].returned)

\* the call of an ordinary message runs off the end of the function
OrdinaryResult == Returned(JSUndefined)

\* the else branch of if( isRoundTripMessage ), where passMessages is read
ReadsPassTable == ~isRoundTripMessage

ResultStoredOnView == [passMessages EXCEPT ![curParent] = Result(curParent)]

\* var passMessages = _.result( curParent, "passMessages" ): the result goes
\* to a local variable, the property of the view stays what it was
PropertyAfterResult == passMessages

PassTableCalledTwice ==
    <<[view |-> curParent, fn |-> "passMessages", args |-> <<>>],
      [view |-> curParent, fn |-> "passMessages", args |-> <<>>]>>

\* the calls _.result makes of a passMessages that is a function
PassTableCalled == <<[view |-> curParent, fn |-> "passMessages", args |-> <<>>]>>

MessagePassedOnFresh == [message EXCEPT !.data = EmptyObject]

\* the message the next turn of the loop works on: the pass step assigns
\* messageShouldBePassed, curChild and curParent, and nothing of message
MessagePassedOn == message

\* the pass step of one turn of the loop, up to the next turn or the return
Pass ==
    /\ pc = "pass"
    /\ message' = MessagePassedOn
    /\ passCalls' = IF ReadsPassTable /\ passMessages[curParent].type = "function"
                    THEN passCalls \o PassTableCalled
                    ELSE passCalls
    /\ passMessages' = IF ReadsPassTable THEN PropertyAfterResult ELSE passMessages
    /\ IF /\ ReadsPassTable
          /\ Result(curParent) # JSUndefined
          /\ Result(curParent).type \notin {"boolean", "array"}
       THEN /\ result' = Thrown("TypeError: passMessages should be boolean or an array.")
            /\ pc' = "done"
            /\ UNCHANGED <<curChild, curParent, messageShouldBePassed>>
       ELSE /\ messageShouldBePassed' = NextShouldBePassed
            /\ IF Truthy(NextShouldBePassed)
               THEN /\ curChild' = curParent
                    /\ curParent' = NextParent(curParent)
                    /\ pc' = "loop"
                    /\ UNCHANGED result
               ELSE /\ result' = OrdinaryResult
                    /\ pc' = "done"
                    /\ UNCHANGED <<curChild, curParent>>
    /\ UNCHANGED <<parentView, subviews, methods, childViewNamed, parentViewFn,
                   onMessages, dom>>
    /\ UNCHANGED <<spawner, argument, isRoundTripMessage, value,
                   triggered, invoked, prevResult, lookedUp, visited, stack>>

UnhandledRoundTripThrows == Thrown("Error: unhandled round trip message")

\* if( isRoundTripMessage ) return undefined
UnhandledRoundTripResult == Returned(JSUndefined)

\* the loop ends because there is no parent left
Exhaust ==
    /\ pc = "loop"
    /\ curParent = NoView
    /\ result' = IF isRoundTripMessage THEN UnhandledRoundTripResult
                 ELSE OrdinaryResult
    /\ pc' = "done"
    /\ UNCHANGED <<config, frame, triggered, invoked, prevResult, passCalls, lookedUp,
                   visited, stack>>

Next ==
    \/ \E v \in Views, t \in OnTables : SetOnMessages(v, t)
    \/ \E v \in Views, t \in PassTables : SetPassMessages(v, t)
    \/ \E v \in Views, name \in SpawnNames, data \in SpawnData : Spawn(v, name, data)
    \/ Dispatch
    \/ Pass
    \/ Exhaust

Spec == Init /\ [][Next]_vars

\* ------------------------------------------------- the matcher on its own
\* One view (1) holds every other view; it keeps view 2 under the name c
\* and view 3 under the name d.  Its onMessages is drawn from families of
\* tables and the other views spawn names drawn from small alphabets.
StringsOver(alphabet, maxLen) == UNION {[1..n -> alphabet] : n \in 1..maxLen}

StarPatterns == StringsOver({"a", "*"}, MaxPatLen)
RichPatterns == StringsOver({"a", "*", ".", "!"}, MaxPatLen)
MatchNames == StringsOver({"a", "!"}, MaxNameLen)
MatchSpawners == {2, 3}

KeysOf(patterns) == patterns \cup {Qualified(p, ChildC) : p \in patterns}

SingleTables == {HandlerTable(<<k>>) : k \in KeysOf(RichPatterns)}
PairTables ==
    {HandlerTable(<<q[1], q[2]>>) :
        q \in {r \in KeysOf(StarPatterns) \X KeysOf(StarPatterns) : r[1] # r[2]}}

\* event names about as long as the bonus of a subview qualifier
Long(n) == [i \in 1..n |-> "a"]
LongNames == {Long(QualifierBonus - 1), Long(QualifierBonus), Long(QualifierBonus + 1)}
LongTables ==
    {HandlerTable(<<l, Qualified(<<"*">>, ChildC)>>) : l \in LongNames}
        \cup {HandlerTable(<<Qualified(<<"*">>, ChildC), l>>) : l \in LongNames}

InitMatchWith(tables) ==
    /\ parentView = [v \in Views |-> IF v = 1 THEN NoView ELSE 1]
    /\ subviews = [v \in Views |->
                     IF v = 1 THEN [type |-> "object", map |-> (ChildC :> 2) @@ (ChildD :> 3)]
                     ELSE JSUndefined]
    /\ methods = [v \in Views |-> ViewMethods]
    /\ childViewNamed = [v \in Views |-> "default"]
    /\ parentViewFn = [v \in Views |-> "default"]
    /\ NoDocument
    /\ onMessages \in {[v \in Views |-> IF v = 1 THEN t ELSE JSUndefined] : t \in tables}
    /\ passMessages = [v \in Views |-> JSUndefined]
    /\ InitFrame

InitMatch == InitMatchWith(SingleTables \cup PairTables)

NextMatch ==
    \/ \E v \in MatchSpawners, name \in MatchNames :
          pc = "idle" /\ Spawn(v, name, JSUndefined)
    \/ Dispatch
    \/ Pass
    \/ Exhaust

SpecMatch == InitMatch /\ [][NextMatch]_vars

InitMatchLong == InitMatchWith(PairTables \cup LongTables)

NextMatchLong ==
    \/ \E v \in MatchSpawners, name \in MatchNames :
          pc = "idle" /\ Spawn(v, name, JSUndefined)
    \/ \E v \in MatchSpawners, name \in LongNames :
          pc = "idle" /\ onMessages[1] \in LongTables /\ Spawn(v, name, JSUndefined)
    \/ Dispatch
    \/ Pass
    \/ Exhaust

SpecMatchLong == InitMatchLong /\ [][NextMatchLong]_vars

\* ------------------------------------------ the shapes of the two tables
\* A chain of views.  One view of it, the subject, carries an onMessages
\* and a passMessages drawn from every shape an application can give them
\* and may supply its own _getChildViewNamed; every other view that holds
\* views passes everything on and either handles the names m, m! and n or
\* nothing.  The views spawn with a name or with a message object.
NameN == <<"n">>
ChildX == <<"x">>

OnAll == HandlerTable(<<NameM, NameMBang, NameN>>)
\* the entry names a property of the view that is not a function
OnField == JSHash(<<Entry(NameM, JSString("subviews")),
                    Entry(NameMBang, JSString("subviews"))>>)
\* the keys match the message and name a child nobody knows
OnUnknownChild == HandlerTable(<<Qualified(NameM, ChildX), Qualified(NameMBang, ChildX)>>)
\* the key that names a child nobody knows is for another message
OnOtherUnknownChild == HandlerTable(<<Qualified(NameN, ChildX), NameM, NameMBang>>)
\* two entries match the message m and two the message m!
OnSeveral == HandlerTable(<<<<"*">>, NameM, <<"*", "!">>, NameMBang>>)
\* a function that returns a table
OnComputed == JSComputed(OnAll)
OnShapes == {JSUndefined, OnAll, OnNamed, OnField, OnUnknownChild, OnOtherUnknownChild,
             OnSeveral, OnFromC, OnComputed}

NoOp == JSString(<<".">>)
PassNoOp == JSHash(<<Entry(NameM, NoOp)>>)
PassRename == JSHash(<<Entry(NameM, JSString(NameN))>>)
PassCallback == JSHash(<<Entry(NameM, JSFunction(NameM))>>)
\* a list whose element is a pattern, and one whose element names a child
PassPattern == JSArray(<<<<"*">>>>)
PassFromC == JSArray(<<Qualified(NameM, ChildC)>>)
PassShapes == {JSUndefined, JSBool(TRUE), JSBool(FALSE), JSArray(<<NameM>>),
               PassNoOp, PassRename, PassCallback, JSString(NameM),
               JSComputed(JSBool(TRUE)), JSComputed(JSString(NameM)),
               PassPattern, PassFromC}

Subjects == 2..(NumViews - 1)

InitShapes ==
    /\ parentView = [v \in Views |-> v - 1]
    /\ methods = [v \in Views |-> ViewMethods]
    /\ parentViewFn = [v \in Views |-> "default"]
    /\ NoDocument
    /\ \E s \in Subjects, on \in OnShapes, pass \in PassShapes,
          own \in {"default", "override", "no subviews"}, rest \in {JSUndefined, OnAll} :
          /\ subviews = [v \in Views |-> IF v = s /\ own = "no subviews" THEN JSUndefined
                                          ELSE InitSubviews[v]]
          /\ onMessages = [v \in Views |-> IF v = s THEN on
                                            ELSE IF v \in Holders THEN rest
                                            ELSE JSUndefined]
          /\ passMessages = [v \in Views |-> IF v = s THEN pass
                                              ELSE IF v \in Holders THEN JSBool(TRUE)
                                              ELSE JSUndefined]
          /\ childViewNamed = [v \in Views |-> IF v = s /\ own = "override" THEN "override"
                                                ELSE "default"]
    /\ InitFrame

NextShapes ==
    \/ \E v \in Views, name \in SpawnNames, data \in SpawnData :
          pc = "idle" /\ Spawn(v, name, data)
    \/ \E v \in Views, msg \in MessageObjects : SpawnObject(v, msg)
    \/ Dispatch
    \/ Pass
    \/ Exhaust

SpecShapes == InitShapes /\ [][NextShapes]_vars

\* ------------------------------------------------ handlers that spawn
\* A chain of views that pass everything on or nothing; each view that
\* holds views handles the names m, m! and n or nothing.  A handler may
\* call this.spawn before it returns: the call it is part of waits on the
\* stack until the call it made has returned or thrown.
MaxDepth == 1

\* the handler step of the turn gets as far as method.call
HandlerCalled ==
    /\ pc = "loop"
    /\ curParent # NoView
    /\ onMessages[curParent].type = "object"
    /\ LET best == getValueOfBestMatchingHashEntry(
                        onMessages[curParent].entries, message, curParent, MatchSource)
       IN  /\ best.type \in {"function", "string"}
           /\ best.type = "string" => ViewProperty(curParent, best.val).type = "function"

\* the variables of a spawn call whose handler step has got to method.call
Waiting ==
    [spawner |-> spawner, argument |-> argument, message |-> message,
     isRoundTripMessage |-> isRoundTripMessage, curChild |-> curChild,
     curParent |-> curParent, messageShouldBePassed |-> messageShouldBePassed,
     value |-> getValueOfBestMatchingHashEntry(
                   onMessages[curParent].entries, message, curParent, MatchSource),
     this |-> HandlerThis, args |-> HandlerArguments,
     triggered |-> triggered, invoked |-> invoked, passCalls |-> passCalls,
     lookedUp |-> lookedUp \o LookupsOf(onMessages[curParent].entries, message, curParent),
     visited |-> Append(visited, curParent)]

\* the handler called at curParent calls this.spawn( name )
HandlerSpawns(name) ==
    /\ HandlerCalled
    /\ Len(stack) < MaxDepth
    /\ stack' = Append(stack, Waiting)
    /\ argument' = Arguments(name, JSUndefined)
    /\ Begin(HandlerThis, name, JSUndefined)
    /\ UNCHANGED prevResult

LocalsShared(outer) ==
    [outer EXCEPT !.message = message, !.isRoundTripMessage = isRoundTripMessage,
                  !.curChild = curChild, !.curParent = curParent,
                  !.messageShouldBePassed = messageShouldBePassed]

\* var message, isRoundTripMessage, curChild, curParent, ...: the variables
\* of the waiting call are its own, the call made in between has left them
\* alone
Locals(outer) == outer

\* the spawn call a handler made has ended: the handler goes on and returns
\* (or the exception of that call ends it), and the call it is part of goes
\* on from method.call
HandlerResumes ==
    /\ pc = "done"
    /\ stack # <<>>
    /\ LET outer == Locals(stack[Len(stack)])
       IN  /\ stack' = SubSeq(stack, 1, Len(stack) - 1)
           /\ spawner' = outer.spawner
           /\ argument' = outer.argument
           /\ message' = outer.message
           /\ isRoundTripMessage' = outer.isRoundTripMessage
           /\ curChild' = outer.curChild
           /\ curParent' = outer.curParent
           /\ messageShouldBePassed' = outer.messageShouldBePassed
           /\ value' = outer.value
           /\ triggered' = outer.triggered
           /\ passCalls' = outer.passCalls
           /\ lookedUp' = outer.lookedUp
           /\ visited' = outer.visited
           /\ IF result.kind = "throw"
              THEN /\ invoked' = outer.invoked
                   /\ pc' = "done"
                   /\ UNCHANGED result
              ELSE \E ret \in Returns :
                     /\ invoked' = Append(outer.invoked,
                            [view |-> outer.curParent, handler |-> outer.value,
                             this |-> outer.this, args |-> outer.args,
                             data |-> outer.message.data,
                             source |-> outer.message.source,
                             name |-> outer.message.name,
                             spawned |-> <<[name |-> message.name, result |-> result]>>,
                             returned |-> ret])
                     /\ IF outer.isRoundTripMessage
                        THEN result' = Returned(ret) /\ pc' = "done"
                        ELSE result' = NoResult /\ pc' = "pass"
    /\ UNCHANGED <<config, prevResult>>

InitNested ==
    /\ parentView = [v \in Views |-> v - 1]
    /\ subviews = InitSubviews
    /\ methods = [v \in Views |-> ViewMethods]
    /\ childViewNamed = [v \in Views |-> "default"]
    /\ parentViewFn = [v \in Views |-> "default"]
    /\ NoDocument
    /\ onMessages \in {t \in [Views -> {JSUndefined, OnAll}] : t[NumViews] = JSUndefined}
    /\ \E pass \in {JSBool(TRUE), JSBool(FALSE)} :
          passMessages = [v \in Views |-> IF v \in Holders THEN pass ELSE JSUndefined]
    /\ InitFrame

NextNested ==
    \/ \E v \in Views, name \in SpawnNames, data \in SpawnData :
          pc = "idle" /\ Spawn(v, name, data)
    \/ \E name \in SpawnNames \cup {NameN} : HandlerSpawns(name)
    \/ HandlerResumes
    \/ Dispatch
    \/ Pass
    \/ Exhaust

SpecNested == InitNested /\ [][NextNested]_vars

\* --------------------------------------------- a spawn call runs to its end
\* The chains and tables of the handlers that spawn, the pass tables absent
\* as well, and handlers that return at once.  spawn is one function call:
\* once it has begun, the turns of its loop follow one another until it
\* returns or throws.
InitChain ==
    /\ parentView \in Shapes
    /\ subviews = InitSubviews
    /\ methods = [v \in Views |-> ViewMethods]
    /\ childViewNamed = [v \in Views |-> "default"]
    /\ parentViewFn = [v \in Views |-> "default"]
    /\ NoDocument
    /\ onMessages \in {t \in [Views -> {JSUndefined, OnAll}] : t[NumViews] = JSUndefined}
    /\ \E pass \in {JSUndefined, JSBool(TRUE), JSBool(FALSE), JSArray(<<NameM>>)} :
          passMessages = [v \in Views |-> IF v \in Holders THEN pass ELSE JSUndefined]
    /\ InitFrame

NextChain ==
    \/ \E v \in Views, name \in SpawnNames, data \in SpawnData :
          pc = "idle" /\ Spawn(v, name, data)
    \/ Dispatch
    \/ Pass
    \/ Exhaust

SpecChainFair == InitChain /\ [][NextChain]_vars /\ WF_vars(Dispatch \/ Pass \/ Exhaust)

\* ------------------------------------------------------------ the document
\* Node 1 is the body; the nodes after it sit one in the other below the
\* body, but for the last two: they are outside the document, the last one
\* in the one before it.  A view has a node as its $el from its
\* construction; Backbone.Courier.add and setElement store the view in the
\* data of that node, and the default _getParentView walks up from it.
Body == 1
ParentNode(n) == IF n = Body \/ n = NumNodes - 1 THEN NoNode ELSE n - 1

\* $( "body" )[ 0 ]
lastPossibleViewElement == Body

DomViews == {1, 2, 3}
\* the node a view is constructed with
Home(v) == v + 1

bubble == <<pc, frame, result, triggered, invoked, prevResult, passCalls, lookedUp,
            visited, stack>>

prepareViewElementAlways(view, node) == [elData EXCEPT ![node] = view]

\* what prepareViewElement( view ) leaves in the data of the nodes when the
\* $el of the view is node
prepareViewElement(view, node) ==
    IF elData[node] = NoView THEN [elData EXCEPT ![node] = view] ELSE elData

InstalledAlways(present) == "default"

\* if( ! _.isFunction( view._getParentView ) ) view._getParentView = ...,
\* and the same for _getChildViewNamed
Installed(present) == IF present = "absent" THEN "default" ELSE present

\* Backbone.Courier.add( view ): spawn, the two resolvers where the view has
\* none of its own, the setElement override, and prepareViewElement
Add(v) ==
    /\ "spawn" \notin methods[v]
    /\ methods' = [methods EXCEPT ![v] = @ \cup {"spawn"}]
    /\ parentViewFn' = [parentViewFn EXCEPT ![v] = Installed(@)]
    /\ childViewNamed' = [childViewNamed EXCEPT ![v] = Installed(@)]
    /\ elData' = IF el[v] # NoNode THEN prepareViewElement(v, el[v]) ELSE elData
    /\ found' = [kind |-> "none"]
    /\ UNCHANGED <<parentView, subviews, onMessages, passMessages, el, bubble>>

\* view.setElement( node ): Backbone.View's setElement and, once add has
\* overridden it, prepareViewElement; the application moves a view once
SetElement(v, node) ==
    /\ el[v] = Home(v)
    /\ node # el[v]
    /\ el' = [el EXCEPT ![v] = node]
    /\ elData' = IF "spawn" \in methods[v] THEN prepareViewElement(v, node) ELSE elData
    /\ found' = [kind |-> "none"]
    /\ UNCHANGED <<parentView, subviews, methods, childViewNamed, parentViewFn,
                   onMessages, passMessages, bubble>>

\* the while loop of findClosestParentView from curElement on
RECURSIVE ClosestFrom(_)
ClosestFrom(curElement) ==
    IF curElement = NoNode \/ curElement = lastPossibleViewElement THEN NoView
    ELSE IF elData[curElement] # NoView /\ "render" \in methods[elData[curElement]]
    THEN elData[curElement]
    ELSE ClosestFrom(ParentNode(curElement))

findClosestParentView(view) == ClosestFrom(ParentNode(el[view]))

\* view._getParentView() as add installed it
GetParentView(v) ==
    /\ parentViewFn[v] = "default"
    /\ found' = [kind |-> "return", view |-> v, value |-> findClosestParentView(v)]
    /\ UNCHANGED <<parentView, subviews, methods, childViewNamed, parentViewFn,
                   onMessages, passMessages, el, elData, bubble>>

InitDom ==
    /\ parentView = [v \in Views |-> NoView]
    /\ subviews = [v \in Views |-> JSUndefined]
    /\ \E middle \in {{"onM"}, {"onM", "render"}} :
          methods = [v \in Views |-> IF v = 2 THEN middle ELSE {"onM", "render"}]
    /\ childViewNamed = [v \in Views |-> "absent"]
    /\ parentViewFn = [v \in Views |-> "absent"]
    /\ el = [v \in Views |-> IF v \in DomViews THEN Home(v) ELSE NoNode]
    /\ elData = [n \in Nodes |-> NoView]
    /\ found = [kind |-> "none"]
    /\ onMessages = [v \in Views |-> JSUndefined]
    /\ passMessages = [v \in Views |-> JSUndefined]
    /\ InitFrame

NextDom ==
    \/ \E v \in DomViews : Add(v)
    \/ \E v \in DomViews, node \in Nodes : SetElement(v, node)
    \/ \E v \in DomViews : GetParentView(v)

SpecDom == InitDom /\ [][NextDom]_vars

\* ------------------------------------------------ resolvers of one's own
\* A chain of views, none of which has a subviews hash; each view that
\* holds views handles m and m! from the children named c and d and passes
\* everything on.  The application may give a view a _getParentView or a
\* _getChildViewNamed of its own, before Backbone.Courier.add is called on
\* the view or after; messages are spawned once add has been called on
\* every view.
OnFromChildren ==
    HandlerTable(<<Qualified(NameM, ChildC), Qualified(NameM, ChildD),
                   Qualified(NameMBang, ChildC), Qualified(NameMBang, ChildD)>>)

\* view._getParentView = function() { ... }
AttachParentView(v) ==
    /\ pc = "idle"
    /\ parentViewFn[v] # "override"
    /\ parentViewFn' = [parentViewFn EXCEPT ![v] = "override"]
    /\ UNCHANGED <<parentView, subviews, methods, childViewNamed, onMessages,
                   passMessages, dom, bubble>>

\* view._getChildViewNamed = function( childViewName ) { ... }
AttachChildViewNamed(v) ==
    /\ pc = "idle"
    /\ childViewNamed[v] # "override"
    /\ childViewNamed' = [childViewNamed EXCEPT ![v] = "override"]
    /\ UNCHANGED <<parentView, subviews, methods, parentViewFn, onMessages,
                   passMessages, dom, bubble>>

InitOverride ==
    /\ parentView = [v \in Views |-> v - 1]
    /\ subviews = [v \in Views |-> JSUndefined]
    /\ methods = [v \in Views |-> {"onM", "render"}]
    /\ childViewNamed = [v \in Views |-> "absent"]
    /\ parentViewFn = [v \in Views |-> "absent"]
    /\ NoDocument
    /\ onMessages = [v \in Views |-> IF v \in Holders THEN OnFromChildren ELSE JSUndefined]
    /\ passMessages = [v \in Views |-> IF v \in Holders THEN JSBool(TRUE) ELSE JSUndefined]
    /\ InitFrame

NextOverride ==
    \/ \E v \in Views : pc = "idle" /\ Add(v)
    \/ \E v \in Views : AttachParentView(v)
    \/ \E v \in Views : AttachChildViewNamed(v)
    \/ \E v \in Views, name \in SpawnNames :
          /\ pc = "idle"
          /\ \A w \in Views : "spawn" \in methods[w]
          /\ Spawn(v, name, JSUndefined)
    \/ Dispatch
    \/ Pass
    \/ Exhaust

SpecOverride == InitOverride /\ [][NextOverride]_vars

\* ----------------------------------------------------- the hierarchy seen
\* from the spawner
RECURSIVE AncestorsOf(_)
AncestorsOf(v) ==
    IF v = NoView \/ parentView[v] = NoView THEN {}
    ELSE {parentView[v]} \cup AncestorsOf(parentView[v])

\* the view through which a message of the spawner arrives at ancestor a
ChildOnChain(a) ==
    IF a \in AncestorsOf(spawner)
    THEN CHOOSE c \in {spawner} \cup AncestorsOf(spawner) : parentView[c] = a
    ELSE NoView

HasMatch(a, child) ==
    /\ onMessages[a].type = "object"
    /\ getValueOfBestMatchingHashEntry(onMessages[a].entries, message, a, child) # JSNull

RECURSIVE NearestHandlingFrom(_, _)
NearestHandlingFrom(child, anc) ==
    IF anc = NoView THEN NoView
    ELSE IF HasMatch(anc, child) THEN anc
    ELSE NearestHandlingFrom(anc, parentView[anc])

\* the nearest ancestor of the spawner with an entry matching the message
NearestHandling ==
    IF spawner = NoView THEN NoView
    ELSE NearestHandlingFrom(spawner, parentView[spawner])

InvokedViews == {invoked[i].view : i \in 1..Len(invoked)}

\* C1: a round-trip message is answered by the handler of the nearest
\* ancestor with a matching entry: that handler is the only one invoked, the
\* call ends with it, and spawn returns what it returned, undefined included.
C1_RoundTripAnsweredByNearest ==
    (pc # "idle" /\ isRoundTripMessage) =>
        /\ Len(invoked) <= 1
        /\ InvokedViews \subseteq {NearestHandling}
        /\ invoked # <<>> => pc = "done" /\ result = Returned(invoked[1].returned)
        /\ (pc = "done" /\ NearestHandling # NoView) =>
               invoked # <<>> \/ result.kind = "throw"

\* a handler answered undefined while a higher ancestor had a matching entry
C1_Witness ==
    /\ pc = "done"
    /\ isRoundTripMessage
    /\ invoked # <<>>
    /\ result = Returned(JSUndefined)
    /\ \E a \in AncestorsOf(NearestHandling) : HasMatch(a, ChildOnChain(a))

\* C2: a round-trip message goes on from every ancestor without a matching
\* entry, whatever that ancestor's passMessages: the call ends at the
\* nearest ancestor with a matching entry, or at the top of the chain.
C2_RoundTripIgnoresPassTables ==
    (pc = "done" /\ isRoundTripMessage) =>
        IF NearestHandling = NoView
        THEN curParent = NoView /\ invoked = <<>>
        ELSE curParent = NearestHandling /\ value # JSNull

\* answered by the grandparent although the parent's passMessages is false
C2_Witness ==
    /\ pc = "done"
    /\ isRoundTripMessage
    /\ invoked # <<>>
    /\ parentView[spawner] # NoView
    /\ invoked[1].view = parentView[parentView[spawner]]
    /\ passMessages[parentView[spawner]] = JSBool(FALSE)

\* the pass table of ancestor a has an entry that forwards the message
PassEntryForwards(a) ==
    \/ passMessages[a] = JSBool(TRUE)
    \/ passMessages[a].type = "array" /\ Contains(passMessages[a].val, message.name)

\* C3: an ordinary message reaches the handlers of an ancestor only if every
\* ancestor below it has a pass entry that forwards the message.
C3_OrdinaryStopsWithoutPassEntry ==
    (pc # "idle" /\ ~isRoundTripMessage) =>
        \A h \in InvokedViews :
            \A a \in AncestorsOf(spawner) : h \in AncestorsOf(a) => PassEntryForwards(a)

\* C4: the source given to a handler is the view from which the message
\* arrived at the handler's view.
C4_SourceIsImmediateChild ==
    pc # "idle" =>
        \A i \in 1..Len(invoked) : invoked[i].source = ChildOnChain(invoked[i].view)

\* C5: only ancestors of the spawner are consulted and have handlers invoked.
C5_UpwardOnly ==
    pc # "idle" =>
        /\ InvokedViews \subseteq AncestorsOf(spawner)
        /\ curParent \in AncestorsOf(spawner) \cup {NoView}

\* a handler ran at an ancestor while the spawner itself and a sibling of it,
\* or a view below it, had a matching entry
C5_Witness ==
    /\ pc = "done"
    /\ invoked # <<>>
    /\ \E b \in Views \ (AncestorsOf(spawner) \cup {spawner}) :
          /\ onMessages[b] = OnPlain
          /\ message.name \in {NameM, NameMBang}

\* the subview qualifier of the key a handler is stored under
QualifierOf(handler) ==
    IF handler.type = "function" THEN delegateEventSplitter(handler.id).subviewName
    ELSE <<>>

\* C9: a handler stored under a key with a subview qualifier is invoked only
\* when the qualifier names the view from which the message arrived at the
\* handler's view.
C9_QualifierNamesArrivingChild ==
    pc # "idle" =>
        \A i \in 1..Len(invoked) :
            QualifierOf(invoked[i].handler) # <<>> =>
                _getChildViewNamed(invoked[i].view, QualifierOf(invoked[i].handler))
                    = ChildOnChain(invoked[i].view)

\* a qualified handler ran above the first hop
C9_Witness ==
    /\ pc = "done"
    /\ \E i \in 1..Len(invoked) :
          /\ QualifierOf(invoked[i].handler) # <<>>
          /\ invoked[i].view # parentView[spawner]

AfterDispatch ==
    /\ pc = "pass" \/ (pc = "done" /\ isRoundTripMessage /\ invoked # <<>>)
    /\ onMessages[curParent].type = "object"

\* the entries of the table of curParent, split, that match the message
MatchingEntries ==
    {e \in {delegateEventSplitter(onMessages[curParent].entries[i].key) :
                i \in 1..Len(onMessages[curParent].entries)} :
        EntryMatches(e, message.name, curParent, curChild)}

\* the entry the chosen handler is stored under
Selected == delegateEventSplitter(value.id)

NonWildcardCount(eventName) ==
    Cardinality({i \in 1..Len(eventName) : eventName[i] # "*"})

C7_MostNonWildcardCharactersWins ==
    (AfterDispatch /\ value.type = "function") =>
        \A e \in MatchingEntries :
            (e.subviewName = <<>>) = (Selected.subviewName = <<>>) =>
                NonWildcardCount(e.eventName) <= NonWildcardCount(Selected.eventName)

\* the pattern with every '*' replaced by the string fill gives it
RECURSIVE Substitute(_, _, _)
Substitute(eventName, fill, nth) ==
    IF eventName = <<>> THEN <<>>
    ELSE IF Head(eventName) = "*"
         THEN fill[nth] \o Substitute(Tail(eventName), fill, nth + 1)
         ELSE <<Head(eventName)>> \o Substitute(Tail(eventName), fill, nth)

\* the name is the pattern with each '*' replaced by some string of \w
\* characters
MatchesAsDocumented(eventName, name) ==
    LET k == Cardinality({i \in 1..Len(eventName) : eventName[i] = "*"})
        letters == {name[i] : i \in 1..Len(name)} \cap WordChars
        words == UNION {[1..n -> letters] : n \in 0..Len(name)}
    IN  \E fill \in [1..k -> words] : Substitute(eventName, fill, 1) = name

\* C8: the matcher finds an entry exactly when the message name is the event
\* pattern of some entry with each '*' replaced by \w characters, every other
\* character standing for itself.
C8_PatternMatchesAsDocumented ==
    AfterDispatch =>
        ((value # JSNull) <=>
            \E i \in 1..Len(onMessages[curParent].entries) :
                LET e == delegateEventSplitter(onMessages[curParent].entries[i].key)
                IN  /\ MatchesAsDocumented(e.eventName, message.name)
                    /\ e.subviewName # <<>> =>
                          _getChildViewNamed(curParent, e.subviewName) = curChild)

BelowOnChain(a) == {b \in AncestorsOf(spawner) : a \in AncestorsOf(b)}

\* the handler step at view v ends without an exception
HandlesCleanly(v) == onMessages[v] \in {JSUndefined, OnAll}

\* an ordinary message of the spawner comes to ancestor a: every ancestor
\* below a passes everything on, and no handler step up to a's throws
ArrivesAt(a) ==
    /\ a \in AncestorsOf(spawner)
    /\ HandlesCleanly(a)
    /\ \A b \in BelowOnChain(a) : HandlesCleanly(b) /\ passMessages[b] = JSBool(TRUE)

\* what the passMessages hash of ancestor a maps the message to
PassDirective(a) ==
    IF Result(a).type = "object"
    THEN getValueOfBestMatchingHashEntry(Result(a).entries, message, a, ChildOnChain(a))
    ELSE JSNull

PassTypeError == Thrown("TypeError: passMessages should be boolean or an array.")

\* C12: while a round-trip message bubbles, no passMessages is read: none
\* that is a function is called and none makes spawn throw its TypeError.
C12_RoundTripReadsNoPassTable ==
    (pc # "idle" /\ isRoundTripMessage) =>
        /\ passCalls = <<>>
        /\ result # PassTypeError

\* a round-trip message answered above an ancestor whose passMessages is a
\* function that returns a string
C12_Witness ==
    /\ pc = "done"
    /\ isRoundTripMessage
    /\ invoked # <<>>
    /\ \E a \in BelowOnChain(invoked[1].view) :
          passMessages[a] = JSComputed(JSString(NameM))

\* C13: an ordinary message that comes to an ancestor whose passMessages
\* maps it to "." is handled at the next ancestor under the same name and
\* with the same data.
C13_NoOpDirectiveForwards ==
    (pc = "done" /\ ~isRoundTripMessage) =>
        \A a \in AncestorsOf(spawner) :
            (/\ ArrivesAt(a)
             /\ PassDirective(a) = NoOp
             /\ parentView[a] # NoView
             /\ onMessages[parentView[a]] = OnAll) =>
                \E i \in 1..Len(invoked) :
                    /\ invoked[i].view = parentView[a]
                    /\ invoked[i].handler = JSFunction(message.name)
                    /\ invoked[i].name = message.name
                    /\ invoked[i].data = message.data

\* C14: an ordinary message that comes to an ancestor whose passMessages
\* maps it to a new name is handled at the next ancestor by the handler of
\* the new name, under the new name and with the data of the spawn call, and
\* not by the handler of the old name.
C14_RenameDirectiveForwards ==
    (pc = "done" /\ ~isRoundTripMessage) =>
        \A a \in AncestorsOf(spawner) :
            (/\ ArrivesAt(a)
             /\ PassDirective(a) = JSString(NameN)
             /\ parentView[a] # NoView
             /\ onMessages[parentView[a]] = OnAll) =>
                /\ \E i \in 1..Len(invoked) :
                      /\ invoked[i].view = parentView[a]
                      /\ invoked[i].handler = JSFunction(NameN)
                      /\ invoked[i].name = NameN
                      /\ invoked[i].data = triggered[1].data
                /\ \A i \in 1..Len(invoked) :
                      invoked[i].view = parentView[a] =>
                          invoked[i].handler # JSFunction(message.name)

\* C15: an ordinary message that comes to an ancestor whose passMessages
\* maps it to a function has that function called with a new message whose
\* data is an empty object and with the old data, and what the function
\* leaves in the new message is handled at the next ancestor.
C15_CallbackDirectiveCalled ==
    (pc = "done" /\ ~isRoundTripMessage) =>
        \A a \in AncestorsOf(spawner) :
            (/\ ArrivesAt(a)
             /\ PassDirective(a).type = "function"
             /\ parentView[a] # NoView
             /\ onMessages[parentView[a]] = OnAll) =>
                /\ \E c \in 1..Len(passCalls) :
                      /\ passCalls[c].view = a
                      /\ passCalls[c].fn = "directive"
                      /\ passCalls[c].args = <<EmptyObject, triggered[1].data>>
                /\ \E i \in 1..Len(invoked) : invoked[i].view = parentView[a]

\* the shapes of passMessages the claim calls recognized
Recognized(table) == table.type \in {"boolean", "array", "object"}

\* C16: an ordinary message that comes to an ancestor whose passMessages is
\* there and is not a boolean, an array or a hash ends with the TypeError,
\* no view above that ancestor being consulted; a boolean, an array or a
\* hash never gives the TypeError.
C16_TypeErrorForUnrecognizedOnly ==
    (pc = "done" /\ ~isRoundTripMessage) =>
        /\ \A a \in AncestorsOf(spawner) :
              (/\ ArrivesAt(a)
               /\ Result(a) # JSUndefined
               /\ ~Recognized(Result(a))) =>
                  /\ result = PassTypeError
                  /\ curParent = a
                  /\ InvokedViews \cap AncestorsOf(a) = {}
        /\ result = PassTypeError => ~Recognized(Result(curParent))

\* C17: when the entry chosen at an ancestor names something of that
\* ancestor that is not a function, or nothing, the call ends there with
\* the error that the method does not exist.
C17_MissingHandlerMethod ==
    (/\ pc \in {"pass", "done"}
     /\ curParent # NoView
     /\ onMessages[curParent].type = "object"
     /\ value.type = "string"
     /\ ViewProperty(curParent, value.val).type # "function") =>
        /\ pc = "done"
        /\ result = Thrown("Error: method does not exist")

\* C19: _getChildViewNamed is asked only for keys whose event pattern
\* matches the message, and when an application's own _getChildViewNamed
\* throws for the child such a key names, that exception ends the call.
C19_UnknownChildPropagates ==
    /\ pc # "idle" =>
          \A i \in 1..Len(lookedUp) : RegExpTest(lookedUp[i].eventName, message.name)
    /\ (/\ pc \in {"pass", "done"}
        /\ curParent # NoView
        /\ onMessages[curParent].type = "object"
        /\ childViewNamed[curParent] = "override"
        /\ \E i \in 1..Len(onMessages[curParent].entries) :
               LET e == delegateEventSplitter(onMessages[curParent].entries[i].key)
               IN  /\ RegExpTest(e.eventName, message.name)
                   /\ e.subviewName # <<>>
                   /\ e.subviewName \notin DOMAIN OverrideMap(curParent)) =>
          /\ pc = "done"
          /\ result = Thrown("Error: Unknown view name")
          /\ curParent \notin InvokedViews

\* the exception ended a call that a lower ancestor had handled
C19_Witness ==
    /\ pc = "done"
    /\ result = Thrown("Error: Unknown view name")
    /\ invoked # <<>>
    /\ lookedUp # <<>>
    /\ lookedUp[Len(lookedUp)].subviewName = ChildX

\* spawn was called with no message, or with an object without a name
NoNameGiven ==
    \/ argument.type = "undefined"
    \/ argument.type = "message" /\ argument.name.type = "undefined"

\* spawn was called with a name, as a string or in an object
NameGiven ==
    \/ argument.type = "string"
    \/ argument.type = "message" /\ argument.name.type = "string"

\* C18: a spawn call with no message or with an object without a name ends
\* with an exception, nothing having been triggered and no ancestor's
\* onMessages or passMessages having been looked at.
C18_NoNameFailsFirst ==
    (pc # "idle" /\ NoNameGiven) =>
        /\ pc = "done"
        /\ result.kind = "throw"
        /\ triggered = <<>>
        /\ invoked = <<>>
        /\ passCalls = <<>>
        /\ lookedUp = <<>>
        /\ curParent = NoView

\* an object without a name, spawned below an ancestor that has tables
C18_Witness ==
    /\ pc = "done"
    /\ argument.type = "message"
    /\ argument.name.type = "undefined"
    /\ result.kind = "throw"
    /\ \E a \in AncestorsOf(spawner) :
          onMessages[a].type = "object" /\ passMessages[a] = JSBool(TRUE)

\* C20: from the start of a spawn call with a name to its end, whatever the
\* end, exactly one trigger call has been made, on the spawner, with the
\* name and the data of the message; so it is there before any handler call.
C20_LocalNotificationOnce ==
    (pc # "idle" /\ NameGiven) =>
        triggered = <<[view |-> spawner, name |-> JSString(message.name),
                       data |-> message.data]>>

\* a call that a handler step ended with an exception
C20_Witness ==
    /\ pc = "done"
    /\ NameGiven
    /\ result.kind = "throw"
    /\ curParent # NoView
    /\ Len(triggered) = 1

\* the name and the data spawn was called with
GivenName == IF argument.type = "string" THEN argument.val ELSE argument.name.val
GivenData == argument.data

\* the entries of the onMessages of view a with the value fn
EntriesWith(a, fn) ==
    IF onMessages[a].type # "object" THEN {}
    ELSE {i \in 1..Len(onMessages[a].entries) : onMessages[a].entries[i].value = fn}

Delivered ==
    {triggered[i].data : i \in 1..Len(triggered)}
        \cup {invoked[i].args[1] : i \in 1..Len(invoked)}

\* C22: a spawn call without data delivers an empty object to the trigger
\* call and to every handler; a spawn call with data delivers that data.
C22_DataDefaultsToEmptyObject ==
    (pc # "idle" /\ NameGiven) =>
        Delivered = {IF GivenData = JSUndefined THEN EmptyObject ELSE GivenData}

\* no data given, and two ancestors' handlers called
C22_Witness ==
    /\ pc = "done"
    /\ NameGiven
    /\ GivenData = JSUndefined
    /\ Len(invoked) >= 2
    /\ Len(triggered) = 1

\* the step the call ended at failed: the passMessages read there is
\* neither a boolean nor an array
FailedAtPassStep ==
    /\ curParent # NoView
    /\ Result(curParent) # JSUndefined
    /\ Result(curParent).type \notin {"boolean", "array"}

\* C23: the spawn call of an ordinary message that returns, returns
\* undefined, whether the message ran out of ancestors, was not passed on or
\* was handled (what the handlers returned is dropped); and it throws only
\* where a step failed, never for want of a handler.
C23_OrdinaryReturnsUndefined ==
    (pc = "done" /\ NameGiven /\ ~isRoundTripMessage) =>
        /\ result.kind \in {"return", "throw"}
        /\ result.kind = "return" => result.value = JSUndefined
        /\ result.kind = "throw" => FailedAtPassStep

\* a handler returned a value and the call returned undefined
C23_Witness ==
    /\ pc = "done"
    /\ NameGiven
    /\ ~isRoundTripMessage
    /\ \E i \in 1..Len(invoked) : invoked[i].returned = JSData("info")
    /\ result = Returned(JSUndefined)

\* C24: within one spawn call the ancestors are visited in the order of the
\* chain, the nearest first and each next one the parent of the one before
\* (so none twice), and at each of them at most one handler is called,
\* however many entries match.
C24_ChainOrderOneHandlerEach ==
    (pc # "idle" /\ NameGiven) =>
        /\ \A k \in 1..Len(visited) :
              visited[k] = parentView[IF k = 1 THEN spawner ELSE visited[k - 1]]
        /\ \A i, j \in 1..Len(invoked) :
              i < j => invoked[j].view \in AncestorsOf(invoked[i].view)
        /\ \A i \in 1..Len(invoked) :
              \E k \in 1..Len(visited) : visited[k] = invoked[i].view

\* two entries of an ancestor match, one handler was called there and one
\* at the ancestor above
C24_Witness ==
    /\ pc = "done"
    /\ Len(invoked) >= 2
    /\ onMessages[invoked[1].view] = OnSeveral
    /\ Len(visited) >= 2

\* the call on top of the stack, when a handler is waiting for a spawn call
Outer == stack[Len(stack)]

\* C25: when a handler calls spawn, the call it made runs to its end (a
\* return or an exception) before the call the handler is part of goes on,
\* nothing of the waiting call changes in between, and when it goes on its
\* message (name, data, source), its round-trip flag and its place in the
\* chain (child and parent) are what they were when the handler was called.
C25_NestedSpawnLeavesOuterAlone ==
    [][/\ (stack # <<>> /\ Len(stack') = Len(stack)) => stack' = stack
       /\ Len(stack') < Len(stack) =>
             /\ pc = "done"
             /\ spawner' = Outer.spawner
             /\ message' = Outer.message
             /\ isRoundTripMessage' = Outer.isRoundTripMessage
             /\ curChild' = Outer.curChild
             /\ curParent' = Outer.curParent
             /\ messageShouldBePassed' = Outer.messageShouldBePassed
             /\ visited' = Outer.visited]_vars

\* an ordinary message went on to the next ancestor after its handler had
\* spawned a round-trip message that an ancestor above answered
C25_Witness ==
    /\ stack = <<>>
    /\ pc = "loop"
    /\ ~isRoundTripMessage
    /\ Len(invoked) = 1
    /\ Len(invoked[1].spawned) = 1
    /\ invoked[1].spawned[1].name = NameMBang
    /\ invoked[1].spawned[1].result = Returned(JSData("info"))
    /\ curChild = invoked[1].view

\* C26: every spawn call comes to its end, a return or an exception, and
\* on the way it visits at most as many ancestors as the spawner has; the
\* parents form a finite chain without a cycle and every handler returns.
C26_SpawnTerminates ==
    /\ [](Len(visited) <= Cardinality(AncestorsOf(spawner)))
    /\ [](pc \in {"loop", "pass"} => <>(pc = "done"))

\* a call that visited every ancestor of the spawner and returned
C26_Witness ==
    /\ pc = "done"
    /\ result.kind = "return"
    /\ spawner = NumViews
    /\ Len(visited) = NumViews - 1
    /\ Cardinality(AncestorsOf(spawner)) = NumViews - 1

\* the nodes above node n, the nearest first, up to the body (left out) or
\* to the top of a tree outside the document
RECURSIVE NodesAbove(_)
NodesAbove(n) ==
    IF n = NoNode \/ ParentNode(n) = NoNode \/ ParentNode(n) = Body THEN <<>>
    ELSE <<ParentNode(n)>> \o NodesAbove(ParentNode(n))

\* node n carries a view that has a render function
CarriesView(n) == elData[n] # NoView /\ "render" \in methods[elData[n]]

\* C27: the default _getParentView of a view returns the view carried by
\* the nearest node strictly above the view's node and below the body that
\* carries a view with a render function, nodes without such a view being
\* skipped, and null when there is no such node; it never returns the view
\* itself nor a view the body carries.
C27_NearestRenderingAncestor ==
    found.kind = "return" =>
        LET above == NodesAbove(el[found.view])
            carrying == {k \in 1..Len(above) : CarriesView(above[k])}
        IN  /\ carrying = {} => found.value = NoView
            /\ carrying # {} =>
                   found.value =
                       elData[above[CHOOSE k \in carrying : \A j \in carrying : k <= j]]
            /\ found.value # found.view
            /\ found.value # NoView => found.value # elData[Body]

\* C28: at a view with the default _getChildViewNamed, an entry with a
\* child name is used only when the view's subviews hash holds, under that
\* name, the view the message arrives from; where there is no subviews hash
\* or no such name in it the entry is used for no message, whatever its
\* source.
C28_DefaultChildResolver ==
    \A i \in 1..Len(invoked) :
        LET a == invoked[i].view
            name == QualifierOf(invoked[i].handler)
        IN  (childViewNamed[a] = "default" /\ name # <<>>) =>
                /\ subviews[a].type = "object"
                /\ name \in DOMAIN subviews[a].map
                /\ subviews[a].map[name] = ChildOnChain(a)

\* a view without a subviews hash was asked for a child, called no handler
\* and passed the message on to a handler above
C28_Witness ==
    /\ pc = "done"
    /\ invoked # <<>>
    /\ \E k \in 1..Len(lookedUp) :
          /\ childViewNamed[lookedUp[k].view] = "default"
          /\ subviews[lookedUp[k].view] = JSUndefined
          /\ lookedUp[k].subviewName = ChildX
          /\ lookedUp[k].view \notin InvokedViews
          /\ \E i \in 1..Len(invoked) : invoked[i].view \in AncestorsOf(lookedUp[k].view)

\* what the _getParentView a view carries now returns
Attached(v) == IF parentViewFn[v] = "override" THEN OwnParent(v) ELSE parentView[v]

\* the current spawn went from view to view by the _getParentView each of
\* them carries, and every entry with a child name it used was resolved by
\* the _getChildViewNamed the view carries (the default resolves no name
\* here, there being no subviews hash)
UsesAttached ==
    /\ \A k \in 1..Len(visited) :
          visited[k] = Attached(IF k = 1 THEN spawner ELSE visited[k - 1])
    /\ \A i \in 1..Len(invoked) :
          LET a == invoked[i].view
              name == QualifierOf(invoked[i].handler)
          IN  name # <<>> =>
                  /\ childViewNamed[a] = "override"
                  /\ name \in DOMAIN OverrideMap(a)
                  /\ \E k \in 1..Len(visited) :
                        /\ visited[k] = a
                        /\ OverrideMap(a)[name] = IF k = 1 THEN spawner ELSE visited[k - 1]

\* C29: no step, Backbone.Courier.add included, takes away a _getParentView
\* or a _getChildViewNamed the application gave a view, and a spawn call
\* goes by what each view carries: the application's own function where
\* there is one, given before add or after, at every hop.
C29_OverridesKeptAndUsed ==
    [][/\ \A v \in Views : parentViewFn[v] = "override" => parentViewFn'[v] = "override"
       /\ \A v \in Views : childViewNamed[v] = "override" => childViewNamed'[v] = "override"
       /\ UsesAttached']_vars

\* a spawn went by the spawner's own _getParentView to the view two above,
\* whose own _getChildViewNamed resolved the name in the entry, and on by
\* that view's default _getParentView
C29_Witness ==
    /\ pc = "done"
    /\ spawner = NumViews
    /\ parentViewFn[spawner] = "override"
    /\ Len(visited) >= 2
    /\ visited[1] = NumViews - 2
    /\ parentViewFn[visited[1]] = "default"
    /\ visited[2] = parentView[visited[1]]
    /\ \E i \in 1..Len(invoked) :
          /\ invoked[i].view = visited[1]
          /\ QualifierOf(invoked[i].handler) = ChildD

\* the view the message came from when it was at the k-th visited ancestor
ArrivedFrom(k) == IF k = 1 THEN spawner ELSE visited[k - 1]

\* C30: where the onMessages of a visited ancestor is a function that
\* returns a table, the entries of that table are matched and dispatched as
\* those of a table are: when one of them matches the message, a handler is
\* called at that ancestor.
C30_ComputedTableDispatched ==
    (pc # "idle" /\ NameGiven) =>
        \A k \in 1..Len(visited) :
            LET a == visited[k]
            IN  (/\ onMessages[a].type = "function"
                 /\ onMessages[a].returns.type = "object"
                 /\ getValueOfBestMatchingHashEntry(
                        onMessages[a].returns.entries, message, a, ArrivedFrom(k)) # JSNull)
                    => a \in InvokedViews

\* ------------------------------------------------ the message object
\* the object spawn is called with, as the caller built it: it has no source
AsBuilt == [name |-> argument.name, data |-> argument.data, source |-> NoView]

\* the same object as the call has left it.  message is that object itself
\* (only a string gets an object of its own), so once the name is found
\* defined, message.source = view and message.data = ... assign its fields
HandedIn ==
    IF message.source = NoView THEN AsBuilt
    ELSE [name |-> argument.name,
          data |-> DataOrEmpty(argument.data),
          source |-> message.source]

\* C31: spawn does not modify an object its caller hands to it: a message
\* object given as the first argument is after the call as the caller built
\* it.
C31_CallersObjectUntouched ==
    (pc # "idle" /\ argument.type = "message") => HandedIn = AsBuilt

\* ------------------------------------------------ what spawn leaves alone
\* C32: no step of a spawn call, however the call ends, changes the
\* onMessages, passMessages or subviews of a view, or which view is the
\* parent of which.
C32_SpawnLeavesConfiguration ==
    [][pc' # "idle" =>
          UNCHANGED <<onMessages, passMessages, subviews, parentView, parentViewFn>>]_vars

\* a call has ended after a handler ran and a passMessages function was
\* evaluated
C32_Witness ==
    /\ pc = "done"
    /\ invoked # <<>>
    /\ passCalls # <<>>
    /\ passMessages[passCalls[1].view].type = "function"

\* ------------------------------------------------ handling and passing
\* the call has gone on from the k-th view it came to, to that view's parent
WentOn(k) == k < Len(visited) \/ curChild = visited[k]

\* the pass step at the k-th view the call came to has been taken and has
\* not thrown
PassStepTaken(k) ==
    \/ k < Len(visited)
    \/ pc = "loop"
    \/ pc = "done" /\ result.kind = "return"

\* C33: for an ordinary message, whether the call goes on from an ancestor
\* is decided by that ancestor's passMessages alone, a handler having run
\* there or not: it goes on exactly when that table forwards the message.
C33_PassTableAloneDecides ==
    (pc # "idle" /\ ~isRoundTripMessage) =>
        \A k \in 1..Len(visited) :
            PassStepTaken(k) => (WentOn(k) <=> PassEntryForwards(visited[k]))

\* ------------------------------------------------ passMessages functions
\* A chain of views whose passMessages is true or a function that returns
\* true, false or a list; every view that holds views handles every name
\* or none.  A call that has ended may be made again.
ComputedPassTables ==
    {JSBool(TRUE), JSComputed(JSBool(TRUE)), JSComputed(JSBool(FALSE)),
     JSComputed(JSArray(<<NameM>>))}

InitComputed ==
    /\ parentView \in Shapes
    /\ subviews = InitSubviews
    /\ methods = [v \in Views |-> ViewMethods]
    /\ childViewNamed = [v \in Views |-> "default"]
    /\ parentViewFn = [v \in Views |-> "default"]
    /\ NoDocument
    /\ \E on \in {JSUndefined, OnAll} :
          onMessages = [v \in Views |-> IF v \in Holders THEN on ELSE JSUndefined]
    /\ \E pass \in [Holders -> ComputedPassTables] :
          passMessages = [v \in Views |-> IF v \in Holders THEN pass[v] ELSE JSUndefined]
    /\ InitFrame

NextComputed ==
    \/ \E v \in Views, name \in SpawnNames, data \in SpawnData : Spawn(v, name, data)
    \/ Dispatch
    \/ Pass
    \/ Exhaust

SpecComputed == InitComputed /\ [][NextComputed]_vars

\* the call has evaluated the passMessages of the view a it came to
PassTableRead(a) ==
    \/ a # curParent
    \/ pc = "done" /\ result.kind = "return"
    \/ pc = "done" /\ result = Thrown("TypeError: passMessages should be boolean or an array.")

\* the views the calls of passMessages functions were made on, in order
CalledOn == [i \in 1..Len(passCalls) |-> passCalls[i].view]

\* a value of passMessages forwards the message
Forwards(table) ==
    \/ table = JSBool(TRUE)
    \/ table.type = "array" /\ Contains(table.val, message.name)

C35_BooleanAndListForwarding ==
    (pc # "idle" /\ ~isRoundTripMessage) =>
        \A k \in 1..Len(visited) :
            LET table == passMessages[visited[k]]
            IN  (PassStepTaken(k) /\ table.type \in {"boolean", "array"}) =>
                    (WentOn(k) <=>
                        IF table.type = "boolean" THEN table.val
                        ELSE \E i \in 1..Len(table.val) : table.val[i] = message.name)

\* a message that a view with true has passed on has stopped at a view whose
\* list holds a pattern the name would match
C35_Witness ==
    /\ pc = "done"
    /\ ~isRoundTripMessage
    /\ result.kind = "return"
    /\ Len(visited) = 2
    /\ passMessages[visited[1]] = JSBool(TRUE)
    /\ passMessages[visited[2]] = PassPattern
    /\ curParent = visited[2]

\* ------------------------------------------------ patterns and '!'
EndsInBang(str) == Len(str) > 0 /\ str[Len(str)] = "!"

\* C36 as stated: an entry matches a round trip message only if its event
\* pattern itself ends in '!'.
C36_OnlyBangPatternsMatchRoundTrip ==
    (AfterDispatch /\ isRoundTripMessage) =>
        \A e \in MatchingEntries : EndsInBang(e.eventName)

\* C36: a '*' never stands for '!': an entry matches a round trip message
\* only if its event pattern has a character other than '*' that matches
\* '!'; an entry such as the catch-all '*' never does.
C36_StarNeverStandsForBang ==
    (AfterDispatch /\ isRoundTripMessage) =>
        \A e \in MatchingEntries :
            \E i \in 1..Len(e.eventName) :
                e.eventName[i] # "*" /\ AtomMatches(e.eventName[i], "!")

\* a round trip message has come to a table with the entry '*' and nothing
\* matched
C36_Witness ==
    /\ AfterDispatch
    /\ isRoundTripMessage
    /\ Len(message.name) > 1
    /\ \E i \in 1..Len(onMessages[curParent].entries) :
          onMessages[curParent].entries[i].key = <<"*">>
    /\ value = JSNull

\* ------------------------------------------------ the view of a node
\* C37: the view a node carries is written once: a step gives a node a view
\* only when the node carries none, and then the view whose element the
\* node is; no step replaces or removes the view a node carries, also when
\* that view has left the node.
C37_NodeViewWrittenOnce ==
    [][\A n \in Nodes :
          /\ elData[n] # NoView => elData'[n] = elData[n]
          /\ elData'[n] # elData[n] => el'[elData'[n]] = n]_vars

\* a node still carries the view that has left it, and another view that
\* add has been called for has it as its element
C37_Witness ==
    \E n \in Nodes, w \in Views :
        /\ elData[n] # NoView
        /\ el[elData[n]] # n
        /\ w # elData[n]
        /\ el[w] = n
        /\ "spawn" \in methods[w]

\* ------------------------------------------------ what is passed on
\* every view the call came to before the i-th handler call passed the
\* message on by a passMessages that is a boolean or a list
PassedOnByShorthand(i) ==
    \A k \in 1..Len(visited) :
        (\E j \in (k + 1)..Len(visited) : visited[j] = invoked[i].view) =>
            passMessages[visited[k]].type \in {"boolean", "array"}

\* C38: passing on by true or by a list changes neither the name nor the
\* data of the message: a handler at any height above such views is given
\* the name spawn was called with and the data spawn was called with, or
\* the empty object when spawn was given none.
C38_PassingKeepsNameAndData ==
    (pc # "idle" /\ NameGiven /\ ~isRoundTripMessage) =>
        \A i \in 1..Len(invoked) :
            PassedOnByShorthand(i) =>
                /\ invoked[i].args[3] = GivenName
                /\ invoked[i].args[1] = DataOrEmpty(GivenData)
                /\ invoked[i].args[1] = invoked[1].args[1]

\* handlers at three heights were given the data of the call, the message
\* passed on by a list and by true between them
C38_Witness ==
    /\ pc = "done"
    /\ ~isRoundTripMessage
    /\ NameGiven
    /\ GivenData = JSData("d1")
    /\ Len(invoked) = 3
    /\ Len(visited) = 3
    /\ {passMessages[visited[1]], passMessages[visited[2]]}
          = {JSBool(TRUE), JSArray(<<NameM>>)}
====
